---- MODULE Spec2Model ----
(***************************************************************************)
(* Model of the mortgage strategy simulators of onk3sh/mortgage_calculator *)
(* (src/helpers/mortgage_calculations.py, src/helpers/mortgage_strategies. *)
(* py).                                                                    *)
(*                                                                         *)
(* Numbers.  The program computes in binary floating point.  Here every    *)
(* quantity is a fixed-point integer and every multiplication or division  *)
(* rounds to the nearest unit, as a float operation rounds to the nearest  *)
(* representable value:                                                    *)
(*   - rates and growth factors are counted in units of 1/Scale (1e-8);    *)
(*   - money is counted in units of 1/Cents of a dollar;                   *)
(*   - the "Rate" column (a percentage) is counted in units of 1/Scale of  *)
(*     a percent.                                                          *)
(* When a loan is paid off exactly at the end of a term, the balance the   *)
(* program tests in "balance > 0" is a residue of rounding (some 1e-10 in  *)
(* floats, some cents here) whose sign the arithmetic decides.  The model  *)
(* does not guess it: for a computed balance within Tolerance of zero the  *)
(* loop may both go on and end.                                            *)
(***************************************************************************)
EXTENDS Integers, Sequences, FiniteSets, TLC

(***************************************************************************)
(* Bounds of the model                                                     *)
(***************************************************************************)
\* Largest number of years drawn for the amortization, the horizon and the
\* term lengths.
MaxYears == 2

(***************************************************************************)
(* Fixed-point arithmetic                                                  *)
(***************************************************************************)
Half == 10 ^ 4
Scale == Half * Half
BasisPoint == Scale \div (10 ^ 4)
Cents == 10 ^ 2

\* What the rounding of a run can add up to in a balance.
Tolerance == 10 * Cents

Abs(x) == IF x < 0 THEN -x ELSE x
Sign(x) == IF x < 0 THEN -1 ELSE 1
Min(a, b) == IF a <= b THEN a ELSE b
Max(a, b) == IF a >= b THEN a ELSE b

\* x * y / Scale for x, y >= 0, rounded to nearest, without leaving 32 bits.
FixMulNat(x, y) ==
  LET xh == x \div Half
      xl == x % Half
      yh == y \div Half
      yl == y % Half
      mid == xh * yl + xl * yh
      low == xl * yl + (Scale \div 2)
  IN  xh * yh + ((mid + (low \div Half)) \div Half)

\* a * b / Scale, rounded to nearest: the product of two floats one of which
\* is a rate or a growth factor.
FixMul(a, b) == Sign(a) * Sign(b) * FixMulNat(Abs(a), Abs(b))

\* <<quotient, remainder>> of a * b divided by c, for a, b >= 0 and c > 0, by
\* binary long multiplication (no intermediate value leaves 32 bits).
RECURSIVE MulDivRem(_, _, _)
MulDivRem(a, b, c) ==
  IF b = 0 THEN <<0, 0>>
  ELSE LET h == MulDivRem(a, b \div 2, c)
           t == 2 * h[2] + (IF b % 2 = 1 THEN a % c ELSE 0)
           u == IF b % 2 = 1 THEN a \div c ELSE 0
       IN  <<2 * h[1] + u + (t \div c), t % c>>

\* a * b / c rounded to nearest, c # 0.
MulDiv(a, b, c) ==
  LET qr == MulDivRem(Abs(a), Abs(b), Abs(c))
      q == qr[1] + (IF 2 * qr[2] >= Abs(c) THEN 1 ELSE 0)
  IN  Sign(a) * Sign(b) * Sign(c) * q

\* Mutant of DivRound: the floor division "//" in the place of "/".
DivFloor(a, n) == a \div n

\* a / n rounded to nearest, n # 0: a float divided by an integer count.
DivRound(a, n) == MulDiv(a, 1, n)

\* x ** n for a growth factor x (units of 1/Scale) and an integer n.
RECURSIVE PowNat(_, _)
PowNat(x, n) ==
  IF n = 0 THEN Scale
  ELSE IF n % 2 = 0
       THEN LET h == PowNat(x, n \div 2) IN FixMul(h, h)
       ELSE FixMul(x, PowNat(x, n - 1))

Pow(x, n) == IF n >= 0 THEN PowNat(x, n) ELSE MulDiv(Scale, Scale, PowNat(x, -n))

\* The largest x in lo .. hi - 1 with (1 + x) ** 6 <= target, by bisection;
\* (1 + lo) ** 6 <= target < (1 + hi) ** 6 on entry.
RECURSIVE SixthRoot(_, _, _)
SixthRoot(target, lo, hi) ==
  IF hi - lo <= 1 THEN lo
  ELSE LET midp == (lo + hi) \div 2
       IN  IF PowNat(Scale + midp, 6) <= target
           THEN SixthRoot(target, midp, hi)
           ELSE SixthRoot(target, lo, midp)

(***************************************************************************)
(* mortgage_calculations.py                                                *)
(***************************************************************************)
\* (1 + annual_rate / 2) ** (1 / 6) - 1, for annual_rate >= 0: the monthly
\* rate under semi-annual compounding.
MonthlyRateOf(annual_rate) ==
  SixthRoot(Scale + (annual_rate \div 2), 0, (annual_rate \div 12) + 2)

\* The conversion is evaluated once for each of the usual rates (the
\* multiples of 5 basis points up to 5%); the table holds what MonthlyRateOf
\* gives.
TabulatedRates == {k * 5 * BasisPoint : k \in 0 .. 100}
MonthlyRateTable == [r \in TabulatedRates |-> MonthlyRateOf(r)]

MonthlyRate(annual_rate) ==
  IF annual_rate \in TabulatedRates THEN MonthlyRateTable[annual_rate]
  ELSE MonthlyRateOf(annual_rate)

\* monthly_payment raises ZeroDivisionError: principal / 0 in the zero-rate
\* branch, or a zero denominator (1 + monthly_rate) ** months - 1.
MonthlyPaymentRaises(annual_rate, months) ==
  IF annual_rate = 0 THEN months = 0
  ELSE Pow(Scale + MonthlyRate(annual_rate), months) - Scale = 0

\* monthly_payment(principal, annual_rate, months), where it does not raise.
MonthlyPayment(principal, annual_rate, months) ==
  IF annual_rate = 0 THEN DivRound(principal, months)
  ELSE LET monthly_rate == MonthlyRate(annual_rate)
           growth == Pow(Scale + monthly_rate, months)
       IN  MulDiv(principal, FixMul(monthly_rate, growth), growth - Scale)


\* create_rate_path: month -> cumulative reduction, for the months
\* 1 .. total_months (a dict with exactly these keys: a sequence).
RECURSIVE RatePathLoop(_, _, _, _, _, _)
RatePathLoop(cut_schedule, cut_amount, total_months, month, cumulative_cut, rate_reductions) ==
  IF month > total_months THEN rate_reductions
  ELSE LET cum == IF \E i \in DOMAIN cut_schedule : cut_schedule[i] = month
                  THEN cumulative_cut + cut_amount
                  ELSE cumulative_cut
       IN  RatePathLoop(cut_schedule, cut_amount, total_months, month + 1, cum,
                        Append(rate_reductions, cum))

\* Mutant of create_rate_path: a cut takes effect the month after its own.
CreateRatePathFromNextMonth(cut_schedule, cut_amount, total_months) ==
  RatePathLoop([i \in DOMAIN cut_schedule |-> cut_schedule[i] + 1], cut_amount,
               total_months, 1, 0, <<>>)

create_rate_path(cut_schedule, cut_amount, total_months) ==
  RatePathLoop(cut_schedule, cut_amount, total_months, 1, 0, <<>>)

\* None, and the one-element boxes that stand for a supplied value.
None == <<>>
Some(v) == <<v>>

\* dict.get(key, 0)
Get(d, key) == IF key \in DOMAIN d THEN d[key] ELSE 0

\* Mutant of PaymentMonths: the payment is computed over the term.
PaymentMonthsOfTerm(months, amortization_months) == months

\* payment_months = amortization_months if amortization_months else months
PaymentMonths(months, amortization_months) ==
  IF amortization_months # 0 THEN amortization_months ELSE months

\* The initial payment of amortize_with_rate_changes raises.
InitialPaymentRaises(initial_rate, months, fixed_payment, amortization_months) ==
  /\ fixed_payment = None
  /\ MonthlyPaymentRaises(initial_rate, PaymentMonths(months, amortization_months))

\* The payment amortize_with_rate_changes starts with.
InitialPayment(principal, initial_rate, months, fixed_payment, amortization_months) ==
  IF fixed_payment = None
  THEN MonthlyPayment(principal, initial_rate,
                      PaymentMonths(months, amortization_months))
  ELSE fixed_payment[1]

\* Payment of month m: recalculated when no payment was supplied and a
\* reduction is in effect.
Recalculates(fixed_payment, rate_reduction) ==
  fixed_payment = None /\ rate_reduction > 0

\* Mutant of RemainingAmortMonths: the month under way is not counted.
RemainingAmortMonthsAfter(months, amortization_months, m) ==
  (IF amortization_months # 0 THEN amortization_months ELSE months) - m

\* remaining_amort_months = (amortization_months if amortization_months else
\* months) - m + 1
RemainingAmortMonths(months, amortization_months, m) ==
  (IF amortization_months # 0 THEN amortization_months ELSE months) - m + 1

\* The rate of a month: the term's rate less the reduction, not below zero.
CurrentRate(initial_rate, rate_reduction) == Max(initial_rate - rate_reduction, 0)

\* Mutant of MonthNumber: the offset of the term is forgotten.
MonthNumberRestart(start_month, m) == m

\* month_number = start_month + m
MonthNumber(start_month, m) == start_month + m

\* Mutant of Entry: a payment below the interest pays no principal back and
\* leaves the balance as it is.
EntryClamped(month_number, payment, interest, current_principal, current_rate) ==
  [Month |-> month_number,
   Payment |-> payment,
   PrincipalPaid |-> Max(payment - interest, 0),
   InterestPaid |-> interest,
   Balance |-> current_principal - Max(payment - interest, 0),
   Rate |-> current_rate * 100]

\* The row appended for one month.
Entry(month_number, payment, interest, current_principal, current_rate) ==
  [Month |-> month_number,
   Payment |-> payment,
   PrincipalPaid |-> payment - interest,
   InterestPaid |-> interest,
   Balance |-> current_principal - (payment - interest),
   Rate |-> current_rate * 100]

(***************************************************************************)
(* config.py: the default parameter set                                    *)
(***************************************************************************)
LOAN_AMOUNT == 672000
FIXED_INITIAL_RATE == 389 * BasisPoint
FIXED_RENEWAL_RATE == 320 * BasisPoint
PRIME_RATE == 495 * BasisPoint
VARIABLE_DISCOUNT_INITIAL == 85 * BasisPoint
VARIABLE_RENEWAL_DISCOUNT == 50 * BasisPoint
RATE_CUT_AMOUNT == 25 * BasisPoint
CUT_SCHEDULE == <<6, 12, 18, 24>>
SPLIT_RATIO == Scale \div 2

\* Months in a year: the factor of every "years * 12" of the simulators.
MonthsPerYear == 12

(***************************************************************************)
(* The parameter sets the runs are drawn from                              *)
(***************************************************************************)
Years == 1 .. MaxYears
\* Term lengths, the invalid ones (zero, negative) included.
TermYears == (-1) .. MaxYears
\* Principals, the invalid ones (zero, negative) included.
LoanAmounts == {-(LOAN_AMOUNT * Cents), 0, LOAN_AMOUNT * Cents}
FixedInitialRates == {0, FIXED_INITIAL_RATE}
\* A cut of 2% drives the variable rate to the clamp at zero.
RateCutAmounts == {RATE_CUT_AMOUNT, 200 * BasisPoint}
\* The default schedule, a single late cut, and a schedule with a repeated
\* month and a month that may lie beyond the horizon.
CutSchedules == {CUT_SCHEDULE, <<18>>, <<6, 6, 30>>}
SplitRatios == {SPLIT_RATIO, Scale \div 4}
Strategies == {"simulate_full_fixed", "simulate_full_variable", "simulate_split"}

DefaultConfig ==
  [loan_amount |-> LOAN_AMOUNT * Cents,
   split_ratio |-> SPLIT_RATIO,
   amortization_years |-> 1,
   horizon_years |-> 1,
   fixed_initial_rate |-> FIXED_INITIAL_RATE,
   fixed_term_years |-> 1,
   fixed_renewal_rate |-> FIXED_RENEWAL_RATE,
   prime_rate |-> PRIME_RATE,
   variable_discount_initial |-> VARIABLE_DISCOUNT_INITIAL,
   variable_term_years |-> 1,
   variable_renewal_discount |-> VARIABLE_RENEWAL_DISCOUNT,
   variable_fixed_payment |-> TRUE,
   use_rate_cuts |-> TRUE,
   cut_schedule |-> CUT_SCHEDULE,
   rate_cut_amount |-> RATE_CUT_AMOUNT]

\* The parameters of a call of simulate_full_fixed (the others are not read).
FixedConfigs ==
  {[DefaultConfig EXCEPT !.loan_amount = l, !.amortization_years = a,
      !.horizon_years = h, !.fixed_term_years = t, !.fixed_initial_rate = r] :
     l \in LoanAmounts, a \in Years, h \in Years, t \in TermYears,
     r \in FixedInitialRates}

\* The rate-cut parameters: one setting with the cuts switched off.
CutConfigs ==
  {[use |-> TRUE, sched |-> s, amount |-> c] : s \in CutSchedules, c \in RateCutAmounts}
  \cup {[use |-> FALSE, sched |-> CUT_SCHEDULE, amount |-> RATE_CUT_AMOUNT]}

\* The parameters of a call of simulate_full_variable.
VariableConfigs ==
  {[DefaultConfig EXCEPT !.loan_amount = l, !.amortization_years = a,
      !.horizon_years = h, !.variable_term_years = t,
      !.variable_fixed_payment = f, !.use_rate_cuts = c.use,
      !.cut_schedule = c.sched, !.rate_cut_amount = c.amount] :
     l \in LoanAmounts, a \in Years, h \in Years, t \in TermYears,
     f \in BOOLEAN, c \in CutConfigs}

\* The parameters of a call of simulate_split.
SplitConfigs ==
  {[DefaultConfig EXCEPT !.loan_amount = l, !.split_ratio = s,
      !.amortization_years = a, !.horizon_years = h, !.fixed_term_years = ft,
      !.variable_term_years = vt, !.variable_fixed_payment = f,
      !.use_rate_cuts = u] :
     l \in LoanAmounts, s \in SplitRatios, a \in Years, h \in Years,
     ft \in TermYears, vt \in TermYears, f \in BOOLEAN, u \in BOOLEAN}

(***************************************************************************)
(* State                                                                   *)
(***************************************************************************)
VARIABLES
  strategy,              \* the simulator called
  cfg,                   \* its arguments
  pc,                    \* the function that runs, "combine", "done" or "error"
  balance,               \* locals of the running renewal loop
  remaining_amort,
  month,
  fixed_payment_amount,
  schedule,
  terms,                 \* history: the iterations the renewal loop has run
  am,                    \* arguments and locals of amortize_with_rate_changes
  df,                    \* the rows amortize_with_rate_changes has appended
  fixed_portion,         \* locals of simulate_split
  variable_portion,
  fixed_schedule,
  var_schedule,
  combined,              \* the schedule simulate_split returns
  result,                \* what a helper called on its own returned
  error                  \* the exception that ended the call, or "none"

vars == <<strategy, cfg, pc, balance, remaining_amort, month, fixed_payment_amount,
          schedule, terms, am, df, fixed_portion, variable_portion, fixed_schedule,
          var_schedule, combined, result, error>>

loopVars == <<balance, remaining_amort, month, fixed_payment_amount, schedule, terms>>
splitVars == <<fixed_portion, variable_portion, fixed_schedule, var_schedule, combined>>

total_months == cfg.horizon_years * MonthsPerYear

\* No call of amortize_with_rate_changes is active.
NoCall ==
  [caller |-> "none", initial_rate |-> 0, months |-> 0, start_month |-> 0,
   fixed_payment |-> None, rate_reductions |-> <<>>, amortization_months |-> 0,
   m |-> 0, current_principal |-> 0, payment |-> 0,
   payment_rate |-> 0, recalculated |-> FALSE]

\* The locals a renewal loop starts with.
LoopStart(amount) ==
  /\ balance = amount
  /\ remaining_amort = cfg.amortization_years * MonthsPerYear
  /\ month = 0
  /\ fixed_payment_amount = None
  /\ schedule = <<>>
  /\ terms = 0

Init ==
  /\ strategy \in Strategies
  /\ cfg \in CASE strategy = "simulate_full_fixed" -> FixedConfigs
               [] strategy = "simulate_full_variable" -> VariableConfigs
               [] OTHER -> SplitConfigs
  /\ pc = strategy
  /\ IF strategy = "simulate_split" THEN LoopStart(0) ELSE LoopStart(cfg.loan_amount)
  /\ am = NoCall
  /\ df = <<>>
  /\ fixed_portion = 0
  /\ variable_portion = 0
  /\ fixed_schedule = <<>>
  /\ var_schedule = <<>>
  /\ combined = <<>>
  /\ result = None
  /\ error = "none"

(***************************************************************************)
(* amortize_with_rate_changes                                              *)
(***************************************************************************)
\* An exception leaves the call: nothing is returned.
Raise(exception) ==
  /\ pc' = "error"
  /\ error' = exception
  /\ UNCHANGED <<strategy, cfg, result, loopVars, am, df, splitVars>>

\* The call: the arguments are bound and the initial payment is computed.
\* held is the caller's fixed_payment_amount as it stands at the call.
CallAmortize(principal, initial_rate, months, start_month, fixed_payment, rate_reductions, amortization_months, held) ==
  IF InitialPaymentRaises(initial_rate, months, fixed_payment, amortization_months)
  THEN Raise("ZeroDivisionError")
  ELSE /\ am' = [caller |-> pc,
                 initial_rate |-> initial_rate,
                 months |-> months,
                 start_month |-> start_month,
                 fixed_payment |-> fixed_payment,
                 rate_reductions |-> rate_reductions,
                 amortization_months |-> amortization_months,
                 m |-> 1,
                 current_principal |-> principal,
                 payment |-> InitialPayment(principal, initial_rate, months,
                                            fixed_payment, amortization_months),
                 \* history: the rate behind the payment, and whether the
                 \* last month called monthly_payment
                 payment_rate |-> initial_rate,
                 recalculated |-> FALSE]
       /\ df' = <<>>
       /\ fixed_payment_amount' = held
       /\ pc' = "amortize_with_rate_changes"
       /\ UNCHANGED <<strategy, cfg, result, balance, remaining_amort, month, schedule,
                      terms, splitVars, error>>

\* One iteration of "for m in range(1, months + 1)".
AmortizeMonth ==
  /\ pc = "amortize_with_rate_changes"
  /\ am.m <= am.months
  /\ LET month_number == MonthNumber(am.start_month, am.m)
         rate_reduction == Get(am.rate_reductions, month_number)
         current_rate == CurrentRate(am.initial_rate, rate_reduction)
         monthly_rate == MonthlyRate(current_rate)
         interest == FixMul(am.current_principal, monthly_rate)
         recalc == Recalculates(am.fixed_payment, rate_reduction)
         remaining == RemainingAmortMonths(am.months, am.amortization_months, am.m)
     IN  IF recalc /\ MonthlyPaymentRaises(current_rate, remaining)
         THEN Raise("ZeroDivisionError")
         ELSE LET payment == IF recalc
                             THEN MonthlyPayment(am.current_principal, current_rate,
                                                 remaining)
                             ELSE am.payment
                  row == Entry(month_number, payment, interest, am.current_principal,
                               current_rate)
              IN  /\ df' = Append(df, row)
                  /\ am' = [am EXCEPT !.m = am.m + 1, !.payment = payment,
                                      !.current_principal = row.Balance,
                                      !.payment_rate = IF recalc THEN current_rate
                                                       ELSE am.payment_rate,
                                      !.recalculated = recalc]
                  /\ UNCHANGED <<strategy, cfg, result, pc, loopVars, splitVars, error>>

(***************************************************************************)
(* mortgage_strategies.py: the pieces of the renewal loops                 *)
(***************************************************************************)
\* The locals a renewal loop starts with, as the next state.
CallLoop(amount) ==
  /\ balance' = amount
  /\ remaining_amort' = cfg.amortization_years * MonthsPerYear
  /\ month' = 0
  /\ fixed_payment_amount' = None
  /\ schedule' = <<>>
  /\ terms' = 0

\* The balance tested is a computed one (not the argument) and so close to
\* zero that rounding decides its sign.
SignDecidedByRounding == month > 0 /\ Abs(balance) <= Tolerance

\* while month < total_months and balance > 0: the test may succeed ...
LoopContinues == month < total_months /\ (balance > 0 \/ SignDecidedByRounding)

\* ... and it may fail.
LoopEnds == ~(month < total_months) \/ balance <= 0 \/ SignDecidedByRounding

\* Mutant of TermLength: the term is not cut at the horizon.
TermLengthUncut(term_years) == term_years * MonthsPerYear

\* term = min(term_years * 12, total_months - month)
TermLength(term_years) == Min(term_years * MonthsPerYear, total_months - month)

\* rate = fixed_initial_rate if month == 0 else fixed_renewal_rate
FullFixedRate == IF month = 0 THEN cfg.fixed_initial_rate ELSE cfg.fixed_renewal_rate

\* Mutant of PortionFixedRate: the portion never renews at the renewal rate.
PortionFixedRateInitial == cfg.fixed_initial_rate

PortionFixedRate == IF month = 0 THEN cfg.fixed_initial_rate ELSE cfg.fixed_renewal_rate

\* base_rate = prime_rate - discount, the discount being the initial one in
\* the first term and the renewal one afterwards.
FullVariableBaseRate ==
  cfg.prime_rate - (IF month = 0 THEN cfg.variable_discount_initial
                    ELSE cfg.variable_renewal_discount)

PortionVariableBaseRate ==
  cfg.prime_rate - (IF month = 0 THEN cfg.variable_discount_initial
                    ELSE cfg.variable_renewal_discount)

\* prime_reductions: the rate path when the cuts are switched on, else {}.
PrimeReductions ==
  IF cfg.use_rate_cuts
  THEN create_rate_path(cfg.cut_schedule, cfg.rate_cut_amount, total_months)
  ELSE <<>>

\* Mutant of VariableReductions: the cuts are counted from the start of the
\* term, those of earlier terms being forgotten.
VariableReductionsFromTermStart(prime_reductions, term) ==
  [m \in {k \in DOMAIN prime_reductions : k > month /\ k <= month + term} |->
     prime_reductions[m] - Get(prime_reductions, month)]

\* variable_reductions: the entries of prime_reductions of this term's months.
VariableReductions(prime_reductions, term) ==
  [m \in {k \in DOMAIN prime_reductions : k > month /\ k <= month + term} |->
     prime_reductions[m]]

\* Mutant of HoldsPayment: the payment is computed anew in every term.
HoldsPaymentNever == FALSE

\* The payment of the term is the held one (fixed-payment policy, after the
\* first term); otherwise monthly_payment is called.
HoldsPayment == cfg.variable_fixed_payment /\ fixed_payment_amount # None

TermPayment(base_rate) ==
  IF HoldsPayment THEN fixed_payment_amount[1]
  ELSE MonthlyPayment(balance, base_rate, remaining_amort)

\* fixed_payment_amount after the payment of the term is set.
HeldPayment(payment) == IF cfg.variable_fixed_payment THEN Some(payment) ELSE None

\* fixed_payment = payment if variable_fixed_payment else None
FixedPaymentArg(payment) == IF cfg.variable_fixed_payment THEN Some(payment) ELSE None

\* One iteration of a fixed renewal loop, up to the call.
FixedTerm(rate) ==
  CallAmortize(balance, rate, TermLength(cfg.fixed_term_years), month, None, <<>>,
               remaining_amort, fixed_payment_amount)

\* One iteration of a variable renewal loop, up to the call.
VariableTerm(base_rate) ==
  LET term == TermLength(cfg.variable_term_years)
      variable_reductions == VariableReductions(PrimeReductions, term)
  IN  IF ~HoldsPayment /\ MonthlyPaymentRaises(base_rate, remaining_amort)
      THEN Raise("ZeroDivisionError")
      ELSE LET payment == TermPayment(base_rate)
           IN  CallAmortize(balance, base_rate, term, month, FixedPaymentArg(payment),
                            variable_reductions, remaining_amort, HeldPayment(payment))

\* Mutant of RemainingAmortAfter: a year is taken off whatever the term.
RemainingAmortLessAYear(remaining, term) == remaining - MonthsPerYear

\* remaining_amort -= term
RemainingAmortAfter(remaining, term) == remaining - term

\* Mutant of CarriedBalance: the balance is carried in whole dollars.
CarriedBalanceInDollars(rows) == (rows[Len(rows)].Balance \div Cents) * Cents

\* balance = df.iloc[-1]["Balance"]
CarriedBalance(rows) == rows[Len(rows)].Balance

\* amortize_with_rate_changes has returned df to the renewal loop: the rows
\* are appended and the locals updated; df.iloc[-1] of a term without rows
\* raises IndexError.
EndTerm ==
  IF df = <<>> THEN Raise("IndexError")
  ELSE /\ schedule' = schedule \o df
       /\ balance' = CarriedBalance(df)
       /\ remaining_amort' = RemainingAmortAfter(remaining_amort, am.months)
       /\ month' = month + am.months
       /\ terms' = terms + 1
       /\ pc' = am.caller
       /\ am' = NoCall
       /\ df' = <<>>
       /\ UNCHANGED <<strategy, cfg, result, fixed_payment_amount, splitVars, error>>

Returned(caller) ==
  /\ pc = "amortize_with_rate_changes"
  /\ am.m > am.months
  /\ am.caller = caller

(***************************************************************************)
(* simulate_full_fixed                                                     *)
(***************************************************************************)
FullFixedTerm ==
  /\ pc = "simulate_full_fixed"
  /\ LoopContinues
  /\ FixedTerm(FullFixedRate)

FullFixedEndTerm ==
  /\ Returned("simulate_full_fixed")
  /\ EndTerm

FullFixedReturn ==
  /\ pc = "simulate_full_fixed"
  /\ LoopEnds
  /\ pc' = "done"
  /\ UNCHANGED <<strategy, cfg, result, loopVars, am, df, splitVars, error>>

(***************************************************************************)
(* simulate_full_variable                                                  *)
(***************************************************************************)
FullVariableTerm ==
  /\ pc = "simulate_full_variable"
  /\ LoopContinues
  /\ VariableTerm(FullVariableBaseRate)

FullVariableEndTerm ==
  /\ Returned("simulate_full_variable")
  /\ EndTerm

FullVariableReturn ==
  /\ pc = "simulate_full_variable"
  /\ LoopEnds
  /\ pc' = "done"
  /\ UNCHANGED <<strategy, cfg, result, loopVars, am, df, splitVars, error>>

(***************************************************************************)
(* simulate_split and its two portion simulators                           *)
(***************************************************************************)
\* The two portions, and the call of simulate_portion_fixed.
SplitStart ==
  /\ pc = "simulate_split"
  /\ fixed_portion' = FixMul(cfg.loan_amount, cfg.split_ratio)
  /\ variable_portion' = FixMul(cfg.loan_amount, Scale - cfg.split_ratio)
  /\ CallLoop(fixed_portion')
  /\ pc' = "simulate_portion_fixed"
  /\ UNCHANGED <<strategy, cfg, result, am, df, fixed_schedule, var_schedule, combined, error>>

PortionFixedTerm ==
  /\ pc = "simulate_portion_fixed"
  /\ LoopContinues
  /\ FixedTerm(PortionFixedRate)

PortionFixedEndTerm ==
  /\ Returned("simulate_portion_fixed")
  /\ EndTerm

\* simulate_portion_fixed returns; simulate_portion_variable is called.
PortionFixedReturn ==
  /\ pc = "simulate_portion_fixed"
  /\ LoopEnds
  /\ fixed_schedule' = schedule
  /\ CallLoop(variable_portion)
  /\ pc' = "simulate_portion_variable"
  /\ UNCHANGED <<strategy, cfg, result, am, df, fixed_portion, variable_portion, var_schedule,
                 combined, error>>

PortionVariableTerm ==
  /\ pc = "simulate_portion_variable"
  /\ LoopContinues
  /\ VariableTerm(PortionVariableBaseRate)

PortionVariableEndTerm ==
  /\ Returned("simulate_portion_variable")
  /\ EndTerm

PortionVariableReturn ==
  /\ pc = "simulate_portion_variable"
  /\ LoopEnds
  /\ var_schedule' = schedule
  /\ pc' = "combine"
  /\ UNCHANGED <<strategy, cfg, result, loopVars, am, df, fixed_portion, variable_portion,
                 fixed_schedule, combined, error>>

\* NaN: the value pandas gives a row of the sum that one operand lacks.  A
\* number x of the combined schedule is the box <<x>>, NaN the empty box.
NaN == <<>>

\* (a * wa + b * wb) / (wa + wb) for a, b >= 0 and wa + wb > 0, to nearest.
WeightedAverage(a, wa, b, wb) ==
  LET c == wa + wb
      p == MulDivRem(a, wa, c)
      q == MulDivRem(b, wb, c)
      r == p[2] + q[2]
  IN  p[1] + q[1] + (r \div c) + (IF 2 * (r % c) >= c THEN 1 ELSE 0)

\* Row i of the combined schedule.  The index is that of the fixed portion's
\* Month column; the sums are aligned on it, so that a row the variable
\* schedule lacks is NaN and a row only the variable schedule has is dropped.
CombineRow(i) ==
  LET f == fixed_schedule[i]
  IN  IF i \in DOMAIN var_schedule
      THEN LET v == var_schedule[i]
           IN  [Month |-> f.Month,
                Payment |-> <<f.Payment + v.Payment>>,
                PrincipalPaid |-> <<f.PrincipalPaid + v.PrincipalPaid>>,
                InterestPaid |-> <<f.InterestPaid + v.InterestPaid>>,
                Balance |-> <<f.Balance + v.Balance>>,
                Rate |-> <<WeightedAverage(f.Rate, fixed_portion, v.Rate,
                                           variable_portion)>>]
      ELSE [Month |-> f.Month, Payment |-> NaN, PrincipalPaid |-> NaN,
            InterestPaid |-> NaN, Balance |-> NaN, Rate |-> NaN]

\* The combination; a portion schedule without rows has no columns, and
\* reading one raises KeyError.
SplitCombine ==
  /\ pc = "combine"
  /\ IF fixed_schedule = <<>> \/ var_schedule = <<>>
     THEN Raise("KeyError")
     ELSE /\ combined' = [i \in DOMAIN fixed_schedule |-> CombineRow(i)]
          /\ pc' = "done"
          /\ UNCHANGED <<strategy, cfg, result, loopVars, am, df, fixed_portion,
                         variable_portion, fixed_schedule, var_schedule, error>>

Next ==
  \/ FullFixedTerm
  \/ FullFixedEndTerm
  \/ FullFixedReturn
  \/ FullVariableTerm
  \/ FullVariableEndTerm
  \/ FullVariableReturn
  \/ SplitStart
  \/ PortionFixedTerm
  \/ PortionFixedEndTerm
  \/ PortionFixedReturn
  \/ PortionVariableTerm
  \/ PortionVariableEndTerm
  \/ PortionVariableReturn
  \/ AmortizeMonth
  \/ SplitCombine

Spec == Init /\ [][Next]_vars

(***************************************************************************)
(* The helpers of mortgage_calculations.py called on their own             *)
(***************************************************************************)
Helpers == {"monthly_payment", "create_rate_path", "amortize_with_rate_changes"}

\* Numbers of months: none, those of a year, and whole years.
MonthCounts == (0 .. MonthsPerYear) \cup {MonthsPerYear * y : y \in Years}

\* Principals: the default loan, one that no number of months divides, a
\* cent, none and a negative one.
Principals == {LOAN_AMOUNT * Cents, 10 ^ 6 + 1, 1, 0, -(LOAN_AMOUNT * Cents)}

\* monthly_payment(principal, annual_rate, months)
MonthlyPaymentArgs ==
  {[principal |-> p, annual_rate |-> r, months |-> n] :
     p \in Principals, r \in FixedInitialRates, n \in MonthCounts}

\* create_rate_path(cut_schedule, cut_amount, total_months): the schedules
\* of the simulators, an empty one, an unsorted one and one with months
\* outside 1 .. total_months; a cut may be zero or negative.
RatePathArgs ==
  {[cut_schedule |-> c, cut_amount |-> a, total_months |-> n] :
     c \in CutSchedules \cup {<<>>, <<24, 6>>, <<0, 3, 40>>},
     a \in RateCutAmounts \cup {0, -RATE_CUT_AMOUNT},
     n \in {MonthsPerYear * y : y \in 0 .. MaxYears}}

\* Payments supplied to amortize_with_rate_changes: none, one below the
\* first month's interest on the default loan (2160.61 at 3.89%), one a
\* little above it, and the default loan's payment over 25 years.
SuppliedPayments ==
  {None, Some(2000 * Cents), Some(2200 * Cents),
   Some(MonthlyPayment(LOAN_AMOUNT * Cents, FIXED_INITIAL_RATE, 25 * MonthsPerYear))}

\* amortize_with_rate_changes(principal, initial_rate, months, start_month,
\* fixed_payment, rate_reductions, amortization_months); an argument left
\* at None is the empty path, or 0 months.
AmortizeArgs ==
  {[principal |-> LOAN_AMOUNT * Cents, initial_rate |-> r, months |-> n,
    start_month |-> s, fixed_payment |-> f, rate_reductions |-> d,
    amortization_months |-> a] :
     r \in FixedInitialRates, n \in {MonthsPerYear * y : y \in 0 .. MaxYears},
     s \in {0, MonthsPerYear}, f \in SuppliedPayments,
     d \in {<<>>, create_rate_path(<<6>>, 200 * BasisPoint, MonthsPerYear * MaxYears),
            create_rate_path(CUT_SCHEDULE, RATE_CUT_AMOUNT, MonthsPerYear * MaxYears)},
     a \in {0, 25 * MonthsPerYear}}

InitHelpers ==
  /\ strategy \in Helpers
  /\ cfg \in CASE strategy = "monthly_payment" -> MonthlyPaymentArgs
               [] strategy = "create_rate_path" -> RatePathArgs
               [] OTHER -> AmortizeArgs
  /\ pc = "call"
  /\ balance = 0
  /\ remaining_amort = 0
  /\ month = 0
  /\ fixed_payment_amount = None
  /\ schedule = <<>>
  /\ terms = 0
  /\ am = NoCall
  /\ df = <<>>
  /\ fixed_portion = 0
  /\ variable_portion = 0
  /\ fixed_schedule = <<>>
  /\ var_schedule = <<>>
  /\ combined = <<>>
  /\ result = None
  /\ error = "none"

\* The value returned to the caller.
Return(value) ==
  /\ result' = Some(value)
  /\ pc' = "done"
  /\ UNCHANGED <<strategy, cfg, loopVars, am, df, splitVars, error>>

MonthlyPaymentCall ==
  /\ pc = "call" /\ strategy = "monthly_payment"
  /\ IF MonthlyPaymentRaises(cfg.annual_rate, cfg.months)
     THEN Raise("ZeroDivisionError")
     ELSE Return(MonthlyPayment(cfg.principal, cfg.annual_rate, cfg.months))

CreateRatePathCall ==
  /\ pc = "call" /\ strategy = "create_rate_path"
  /\ Return(create_rate_path(cfg.cut_schedule, cfg.cut_amount, cfg.total_months))

AmortizeCall ==
  /\ pc = "call" /\ strategy = "amortize_with_rate_changes"
  /\ CallAmortize(cfg.principal, cfg.initial_rate, cfg.months, cfg.start_month,
                  cfg.fixed_payment, cfg.rate_reductions, cfg.amortization_months,
                  fixed_payment_amount)

\* return pd.DataFrame(schedule)
AmortizeReturn ==
  /\ Returned("call")
  /\ result' = Some(df)
  /\ pc' = "done"
  /\ am' = NoCall
  /\ UNCHANGED <<strategy, cfg, loopVars, df, splitVars, error>>

NextHelpers ==
  \/ MonthlyPaymentCall
  \/ CreateRatePathCall
  \/ AmortizeCall
  \/ AmortizeMonth
  \/ AmortizeReturn

SpecHelpers == InitHelpers /\ [][NextHelpers]_vars

(***************************************************************************)
(* The portion simulators called with the arguments of the full simulators  *)
(***************************************************************************)
\* A full simulator is called, and then the portion simulator that goes with
\* it, with the loan amount for portion_amount and the other arguments alike.
PortionSimulators == {"simulate_portion_fixed", "simulate_portion_variable"}

FullSimulator(portion) ==
  IF portion = "simulate_portion_fixed" THEN "simulate_full_fixed"
  ELSE "simulate_full_variable"

InitPortions ==
  /\ strategy \in PortionSimulators
  /\ cfg \in IF strategy = "simulate_portion_fixed" THEN FixedConfigs ELSE VariableConfigs
  /\ pc = FullSimulator(strategy)
  /\ LoopStart(cfg.loan_amount)
  /\ am = NoCall
  /\ df = <<>>
  /\ fixed_portion = 0
  /\ variable_portion = 0
  /\ fixed_schedule = <<>>
  /\ var_schedule = <<>>
  /\ combined = <<>>
  /\ result = None
  /\ error = "none"

\* The full simulator has returned its schedule or raised: the outcome is
\* kept (with the rows a raise loses) and the portion simulator is called.
FullThenPortion ==
  /\ result = None
  /\ (pc = FullSimulator(strategy) /\ LoopEnds) \/ pc = "error"
  /\ result' = Some([rows |-> schedule, error |-> error])
  /\ CallLoop(cfg.loan_amount)
  /\ am' = NoCall
  /\ df' = <<>>
  /\ error' = "none"
  /\ pc' = strategy
  /\ UNCHANGED <<strategy, cfg, splitVars>>

\* return schedule, of the portion simulator
PortionReturn ==
  /\ pc = strategy
  /\ LoopEnds
  /\ pc' = "done"
  /\ UNCHANGED <<strategy, cfg, result, loopVars, am, df, splitVars, error>>

NextPortions ==
  \/ FullFixedTerm
  \/ FullFixedEndTerm
  \/ FullVariableTerm
  \/ FullVariableEndTerm
  \/ FullThenPortion
  \/ PortionFixedTerm
  \/ PortionFixedEndTerm
  \/ PortionVariableTerm
  \/ PortionVariableEndTerm
  \/ AmortizeMonth
  \/ PortionReturn

SpecPortions == InitPortions /\ [][NextPortions]_vars

(***************************************************************************)
(* analysis_export.py: calculate_metrics on the schedule of a simulator     *)
(***************************************************************************)
\* A row of a full simulator with its numbers boxed, as the combined rows
\* of simulate_split are (a box is empty where pandas holds NaN).
Boxed(row) ==
  [Month |-> row.Month,
   Payment |-> <<row.Payment>>,
   PrincipalPaid |-> <<row.PrincipalPaid>>,
   InterestPaid |-> <<row.InterestPaid>>,
   Balance |-> <<row.Balance>>,
   Rate |-> <<row.Rate>>]

\* The schedule the simulator returned, which calculate_metrics is given.
ReturnedSchedule ==
  IF strategy = "simulate_split" THEN combined
  ELSE [i \in DOMAIN schedule |-> Boxed(schedule[i])]

\* schedule[column]
Column(rows, column) == [i \in DOMAIN rows |-> rows[i][column]]

\* The numbers of a column: pandas leaves NaN out of sum, mean, min and max.
NumbersOf(series) == {i \in DOMAIN series : series[i] # NaN}

\* series.sum() of the first n values
RECURSIVE SumSkipNa(_, _)
SumSkipNa(series, n) ==
  IF n = 0 THEN 0
  ELSE SumSkipNa(series, n - 1) + (IF series[n] = NaN THEN 0 ELSE series[n][1])

\* series.mean(): the sum over the count, to nearest (quotients and
\* remainders are summed apart, the sum of the rates leaving 32 bits).
MeanSkipNa(series) ==
  LET n == Cardinality(NumbersOf(series))
      quotients == [i \in DOMAIN series |->
                      IF series[i] = NaN THEN NaN ELSE <<series[i][1] \div n>>]
      remainders == [i \in DOMAIN series |->
                       IF series[i] = NaN THEN NaN ELSE <<series[i][1] % n>>]
  IN  IF n = 0 THEN NaN
      ELSE <<SumSkipNa(quotients, Len(series))
             + DivRound(SumSkipNa(remainders, Len(series)), n)>>

\* series.min() and series.max()
MinSkipNa(series) ==
  LET I == NumbersOf(series)
  IN  IF I = {} THEN NaN
      ELSE <<series[CHOOSE i \in I : \A j \in I : series[i][1] <= series[j][1]][1]>>

MaxSkipNa(series) ==
  LET I == NumbersOf(series)
  IN  IF I = {} THEN NaN
      ELSE <<series[CHOOSE i \in I : \A j \in I : series[i][1] >= series[j][1]][1]>>

\* equity_built = loan_amount - end_balance
EquityBuilt(loan_amount, end_balance) ==
  IF end_balance = NaN THEN NaN ELSE <<loan_amount - end_balance[1]>>

\* calculate_metrics(schedule, name, loan_amount) for a schedule with rows.
\* Equity Built (%) is kept in hundredths of a percent.
calculate_metrics(rows, name, loan_amount) ==
  LET total_payment == SumSkipNa(Column(rows, "Payment"), Len(rows))
      total_interest == SumSkipNa(Column(rows, "InterestPaid"), Len(rows))
      total_principal == SumSkipNa(Column(rows, "PrincipalPaid"), Len(rows))
      end_balance == rows[Len(rows)].Balance
      equity_built == EquityBuilt(loan_amount, end_balance)
  IN  [Strategy |-> name,
       TotalPayments |-> total_payment,
       TotalInterest |-> total_interest,
       TotalPrincipalPaid |-> total_principal,
       EndingBalance |-> end_balance,
       EquityBuilt |-> equity_built,
       EquityBuiltPct |-> IF equity_built = NaN THEN NaN
                          ELSE <<MulDiv(equity_built[1], 100 * 100, loan_amount)>>,
       AverageRate |-> MeanSkipNa(Column(rows, "Rate")),
       MinRate |-> MinSkipNa(Column(rows, "Rate")),
       MaxRate |-> MaxSkipNa(Column(rows, "Rate"))]

\* The caller passes the schedule a simulator returned and the loan amount;
\* a schedule without rows has no columns, and schedule["Payment"] raises.
CalculateMetrics ==
  /\ pc = "done"
  /\ result = None
  /\ IF ReturnedSchedule = <<>> THEN Raise("KeyError")
     ELSE /\ result' = Some(calculate_metrics(ReturnedSchedule, strategy, cfg.loan_amount))
          /\ UNCHANGED <<strategy, cfg, pc, loopVars, am, df, splitVars, error>>

NextMetrics == Next \/ CalculateMetrics

SpecMetrics == Init /\ [][NextMetrics]_vars

(***************************************************************************)
(* Vocabulary of the properties                                            *)
(***************************************************************************)
\* The rows the running renewal loop has produced so far.
Rows == schedule \o df

Done == pc = "done"

IsSplit == strategy = "simulate_split"

\* The term lengths the called simulator reads.
TermYearsRead ==
  CASE strategy = "simulate_full_fixed" -> {cfg.fixed_term_years}
    [] strategy = "simulate_full_variable" -> {cfg.variable_term_years}
    [] OTHER -> {cfg.fixed_term_years, cfg.variable_term_years}

PositiveParameters ==
  /\ cfg.loan_amount > 0
  /\ cfg.amortization_years > 0
  /\ cfg.horizon_years > 0
  /\ \A t \in TermYearsRead : t > 0

\* The term length in months of a full simulator.
FullTermMonths ==
  MonthsPerYear * (IF strategy = "simulate_full_fixed" THEN cfg.fixed_term_years
                   ELSE cfg.variable_term_years)

MinOf(S) == CHOOSE x \in S : \A y \in S : x <= y

\* The number of rows of the schedule the call returned, and whether the
\* balance of its row i is zero or below.
ReturnedLen == IF IsSplit THEN Len(combined) ELSE Len(schedule)

ReturnedPaidOff(i) ==
  IF IsSplit THEN combined[i].Balance # NaN /\ combined[i].Balance[1] <= 0
  ELSE schedule[i].Balance <= 0

\* A test of "balance > 0" of the run was decided by rounding: some term of
\* T months ended before the horizon with a balance within Tolerance of zero.
NearZeroAtTermEnd(rows, T) ==
  \E k \in DOMAIN rows :
    T > 0 /\ k % T = 0 /\ k < total_months /\ Abs(rows[k].Balance) <= Tolerance

\* No loop test of the finished call hinged on rounding.
RoundingFree ==
  IF IsSplit
  THEN /\ ~NearZeroAtTermEnd(fixed_schedule, MonthsPerYear * cfg.fixed_term_years)
       /\ ~NearZeroAtTermEnd(var_schedule, MonthsPerYear * cfg.variable_term_years)
  ELSE ~NearZeroAtTermEnd(schedule, FullTermMonths)

(***************************************************************************)
(* C1                                                                      *)
(***************************************************************************)
\* C1 as stated: for positive parameters the returned schedule has
\* min(horizon months, first month whose ending balance is <= 0) rows.
\* (Stated of the runs no test of which hinged on rounding.)
C1_LengthFirstPaidOffMonth ==
  (Done /\ PositiveParameters /\ RoundingFree) =>
    LET paid == {i \in 1 .. ReturnedLen : ReturnedPaidOff(i)}
    IN  ReturnedLen = Min(total_months,
                          IF paid = {} THEN total_months ELSE MinOf(paid))

\* rows stops at the horizon or at the first end of a term of T months whose
\* balance is zero or below, and nowhere else (a balance within Tolerance of
\* zero being positive or not as rounding decides).
StopsAtTermEnd(rows, T) ==
  /\ Len(rows) >= 1
  /\ Len(rows) <= total_months
  /\ \A k \in 1 .. (Len(rows) - 1) : k % T = 0 => rows[k].Balance >= -Tolerance
  /\ \/ Len(rows) = total_months
     \/ Len(rows) % T = 0 /\ rows[Len(rows)].Balance <= Tolerance

\* What the code does instead (C1): for positive parameters the returned
\* schedule has min(horizon months, first term-end month whose ending balance
\* is <= 0) rows: the balance is tested between terms only, so the rows run on
\* to the end of the term in which the balance reached zero or below.  For
\* simulate_split the rows are as many as the fixed portion's, whose own
\* terms and balances decide.
C1_LengthFirstPaidOffTermEnd ==
  (Done /\ PositiveParameters) =>
    IF IsSplit
    THEN /\ Len(combined) = Len(fixed_schedule)
         /\ StopsAtTermEnd(fixed_schedule, MonthsPerYear * cfg.fixed_term_years)
    ELSE StopsAtTermEnd(schedule, FullTermMonths)

\* A full run that stopped before the horizon, at the end of a term, on a
\* balance clearly below zero.
C1_Witness ==
  /\ Done /\ PositiveParameters /\ ~IsSplit
  /\ Len(schedule) < total_months
  /\ schedule[Len(schedule)].Balance < -Tolerance

(***************************************************************************)
(* C2                                                                      *)
(***************************************************************************)
\* C2: in every schedule (of a full simulator, of a portion, and the
\* combined one) the k-th row has Month = k, also across renewals, and the
\* last Month is at most horizon_years * 12.
C2_MonthsContiguous ==
  /\ \A k \in DOMAIN Rows : Rows[k].Month = k
  /\ Len(Rows) <= total_months
  /\ \A k \in DOMAIN combined : combined[k].Month = k
  /\ Len(combined) <= total_months

\* A returned schedule that runs across a renewal.
C2_Witness ==
  /\ Done /\ strategy = "simulate_full_variable" /\ PositiveParameters
  /\ Len(schedule) > FullTermMonths
  /\ schedule[FullTermMonths + 1].Month = FullTermMonths + 1

(***************************************************************************)
(* C3                                                                      *)
(***************************************************************************)
\* C3: under the fixed-payment policy of simulate_full_variable every row
\* carries one Payment, the one computed at the start of the first term from
\* the loan, the initial variable rate and the amortization months; neither a
\* rate cut nor a renewal changes it.
C3_PaymentHeld ==
  (strategy = "simulate_full_variable" /\ cfg.variable_fixed_payment) =>
    LET first == MonthlyPayment(cfg.loan_amount,
                                cfg.prime_rate - cfg.variable_discount_initial,
                                cfg.amortization_years * MonthsPerYear)
    IN  \A k \in DOMAIN Rows : Rows[k].Payment = first

\* A fixed-payment run with a renewal behind it and rows of different rates.
C3_Witness ==
  /\ Done /\ strategy = "simulate_full_variable" /\ cfg.variable_fixed_payment
  /\ cfg.use_rate_cuts /\ PositiveParameters
  /\ Len(schedule) > FullTermMonths
  /\ schedule[1].Rate # schedule[FullTermMonths].Rate
  /\ schedule[FullTermMonths].Rate # schedule[FullTermMonths + 1].Rate

(***************************************************************************)
(* C4                                                                      *)
(***************************************************************************)
\* The cut months in force: those of the schedule when the cuts are switched
\* on (use_rate_cuts), none otherwise.
CutMonths ==
  IF cfg.use_rate_cuts THEN {cfg.cut_schedule[i] : i \in DOMAIN cfg.cut_schedule}
  ELSE {}

CutsUpTo(M) == Cardinality({c \in CutMonths : 1 <= c /\ c <= M})

DiscountAt(M) ==
  IF M <= FullTermMonths THEN cfg.variable_discount_initial
  ELSE cfg.variable_renewal_discount

\* C4: in a variable schedule, under either payment policy, the Rate of month
\* M is 100 * max(prime_rate - discount - rate_cut_amount * (number of cut
\* months c in force with 1 <= c <= M), 0), the discount being the initial one
\* in the first term and the renewal one afterwards.
C4_RateFormula ==
  strategy = "simulate_full_variable" =>
    \A M \in DOMAIN Rows :
      Rows[M].Rate = 100 * Max(cfg.prime_rate - DiscountAt(M)
                               - cfg.rate_cut_amount * CutsUpTo(M), 0)

\* The example of the specification: four cuts of 0.25% on 4.95% less 0.85%
\* give 3.10% in month 24.
C4_Witness ==
  /\ Done /\ strategy = "simulate_full_variable" /\ PositiveParameters
  /\ cfg.use_rate_cuts /\ cfg.cut_schedule = CUT_SCHEDULE
  /\ cfg.rate_cut_amount = RATE_CUT_AMOUNT
  /\ cfg.variable_term_years = 2
  /\ Len(schedule) = 24
  /\ schedule[24].Rate = 100 * 310 * BasisPoint

(***************************************************************************)
(* C5, C6                                                                  *)
(***************************************************************************)
\* C5 as stated: every row i of the schedule simulate_split returns holds the
\* sums of the two portions' Payment, Principal Paid, Interest Paid and
\* Balance at i, and the portion-weighted average of their rates.
\* (Stated of the runs no test of which hinged on rounding.)
C5_SplitRowsAreSums ==
  (Done /\ IsSplit /\ RoundingFree) =>
    \A i \in DOMAIN combined :
      /\ i \in DOMAIN fixed_schedule
      /\ i \in DOMAIN var_schedule
      /\ combined[i].Payment = <<fixed_schedule[i].Payment + var_schedule[i].Payment>>
      /\ combined[i].PrincipalPaid =
           <<fixed_schedule[i].PrincipalPaid + var_schedule[i].PrincipalPaid>>
      /\ combined[i].InterestPaid =
           <<fixed_schedule[i].InterestPaid + var_schedule[i].InterestPaid>>
      /\ combined[i].Balance = <<fixed_schedule[i].Balance + var_schedule[i].Balance>>
      /\ combined[i].Rate =
           <<WeightedAverage(fixed_schedule[i].Rate, fixed_portion,
                             var_schedule[i].Rate, variable_portion)>>

\* C6 as stated: the two portion schedules of simulate_split have the same
\* number of rows whenever both have been computed.
\* (Stated of the runs no test of which hinged on rounding.)
C6_PortionsEqualLength ==
  (IsSplit /\ pc \in {"combine", "done"} /\ RoundingFree) =>
    Len(fixed_schedule) = Len(var_schedule)

(***************************************************************************)
(* C7                                                                      *)
(***************************************************************************)
\* Zero or negative principal, zero or negative term length, or a horizon
\* shorter than one term.
InvalidParameters ==
  \/ cfg.loan_amount <= 0
  \/ \E t \in TermYearsRead : t <= 0 \/ total_months < t * MonthsPerYear

\* C7 as stated: a call with an invalid parameter set never returns a
\* schedule.
C7_InvalidParametersNeverReturn == InvalidParameters => ~Done

\* What the code does instead (C7): no simulator checks its parameters.
\*  - With a zero or negative principal the full simulators return an empty
\*    schedule and raise nothing; simulate_split raises only the KeyError of
\*    combining two schedules without rows.
\*  - With a positive principal and a zero or negative term length the call
\*    never returns: it ends in the IndexError of reading the last row of a
\*    term without rows.
\*  - A horizon shorter than one term is not an error: the schedule returned
\*    has exactly horizon_years * 12 rows, the term being cut at the horizon.
C7_NoParameterCheck ==
  /\ cfg.loan_amount <= 0 =>
       /\ Rows = <<>>
       /\ IF IsSplit THEN ~Done /\ error \in {"none", "KeyError"}
          ELSE error = "none"
  /\ (cfg.loan_amount > 0 /\ \E t \in TermYearsRead : t <= 0) =>
       /\ ~Done
       /\ error \in {"none", "IndexError"}
  /\ (Done /\ PositiveParameters /\ ~IsSplit /\ total_months < FullTermMonths) =>
       Len(schedule) = total_months
  /\ (Done /\ PositiveParameters /\ IsSplit
        /\ total_months < cfg.fixed_term_years * MonthsPerYear) =>
       Len(combined) = total_months

\* A call with a horizon shorter than its term that returned a schedule of
\* horizon months.
C7_Witness ==
  /\ Done /\ PositiveParameters /\ ~IsSplit
  /\ total_months < FullTermMonths
  /\ Len(schedule) = total_months

(***************************************************************************)
(* C8                                                                      *)
(***************************************************************************)
\* C8 as stated: in every row of every schedule, the combined schedule of
\* simulate_split included, Principal Paid + Interest Paid = Payment (which
\* no row holding NaN satisfies).
\* (Stated of the runs no test of which hinged on rounding.)
C8_PrincipalPlusInterest ==
  /\ \A k \in DOMAIN Rows :
       Rows[k].PrincipalPaid + Rows[k].InterestPaid = Rows[k].Payment
  /\ (Done /\ IsSplit /\ RoundingFree) => \A k \in DOMAIN combined :
       /\ combined[k].Payment # NaN
       /\ combined[k].PrincipalPaid # NaN
       /\ combined[k].InterestPaid # NaN
       /\ combined[k].PrincipalPaid[1] + combined[k].InterestPaid[1]
            = combined[k].Payment[1]

(***************************************************************************)
(* C9                                                                      *)
(***************************************************************************)
\* Row M of a recalculating variable run is a row in which a cut takes effect
\* and the rate is below that of the row before, which is of the same term.
CutLowersRate(M) ==
  /\ M \in DOMAIN Rows /\ M - 1 \in DOMAIN Rows
  /\ (M - 1) % FullTermMonths # 0
  /\ M \in CutMonths
  /\ Rows[M].Rate < Rows[M - 1].Rate

\* C9 as stated: under the recalculate policy the Payment of such a row is
\* strictly less than the Payment of the row before.
\* (Stated of the runs no test of which hinged on rounding.)
C9_CutLowersPayment ==
  (strategy = "simulate_full_variable" /\ ~cfg.variable_fixed_payment
     /\ PositiveParameters /\ ~NearZeroAtTermEnd(Rows, FullTermMonths)) =>
    \A M \in DOMAIN Rows : CutLowersRate(M) => Rows[M].Payment < Rows[M - 1].Payment

\* What the code does (C9): the claim holds of the months of the amortization
\* period (M <= amortization_years * 12); the rows after it, which C1 says are
\* not there, hold a negative balance, and a payment recalculated from it
\* and a lower rate is not lower.
C9_CutLowersPaymentWithinAmortization ==
  (strategy = "simulate_full_variable" /\ ~cfg.variable_fixed_payment
     /\ PositiveParameters) =>
    \A M \in DOMAIN Rows :
      (CutLowersRate(M) /\ M <= cfg.amortization_years * MonthsPerYear) =>
        Rows[M].Payment < Rows[M - 1].Payment

\* A recalculated payment that a cut has lowered, the row before having been
\* recalculated too.
C9_Witness ==
  /\ strategy = "simulate_full_variable" /\ ~cfg.variable_fixed_payment
  /\ PositiveParameters
  /\ CutLowersRate(12) /\ 12 <= cfg.amortization_years * MonthsPerYear
  /\ Rows[11].Rate < Rows[1].Rate
  /\ Rows[12].Payment < Rows[11].Payment

(***************************************************************************)
(* C10                                                                     *)
(***************************************************************************)
\* C10: when the horizon is at most one term, simulate_full_fixed runs one
\* term: horizon months of rows, each at the initial rate and with the annuity
\* payment of the whole principal at the initial rate over the amortization
\* months, and the last Balance is below the principal.
C10_SingleTerm ==
  (Done /\ strategy = "simulate_full_fixed" /\ PositiveParameters
     /\ total_months <= FullTermMonths) =>
    LET annuity == MonthlyPayment(cfg.loan_amount, cfg.fixed_initial_rate,
                                  cfg.amortization_years * MonthsPerYear)
    IN  /\ Len(schedule) = total_months
        /\ \A k \in DOMAIN schedule :
             /\ schedule[k].Rate = 100 * cfg.fixed_initial_rate
             /\ schedule[k].Payment = annuity
        /\ schedule[Len(schedule)].Balance < cfg.loan_amount

\* The horizon equals the term and the amortization is longer, as in the
\* example of the specification.
C10_Witness ==
  /\ Done /\ strategy = "simulate_full_fixed" /\ PositiveParameters
  /\ total_months = FullTermMonths
  /\ cfg.amortization_years > cfg.horizon_years
  /\ cfg.fixed_initial_rate = FIXED_INITIAL_RATE
  /\ Len(schedule) = total_months
  /\ schedule[Len(schedule)].Balance > 0

(***************************************************************************)
(* C11                                                                     *)
(***************************************************************************)
\* The rows of a call of amortize_with_rate_changes on its own: those
\* returned, or those appended so far.
HelperRows == IF pc = "done" THEN result[1] ELSE df

\* The principal the running call of amortize_with_rate_changes was given.
BalanceBeforeTerm == IF am.caller = "call" THEN cfg.principal ELSE balance

\* The balance row k starts from.
BalanceBefore(rows, k) == IF k = 1 THEN cfg.principal ELSE rows[k - 1].Balance

\* C11: amortize_with_rate_changes given a fixed payment raises nothing and
\* clamps nothing: every row carries the payment given; a row whose payment
\* is below its interest has a negative Principal Paid (payment - interest)
\* and a Balance above the balance before; and all months rows are returned.
C11_NegativeAmortizationKept ==
  (strategy = "amortize_with_rate_changes" /\ cfg.fixed_payment # None) =>
    /\ error = "none"
    /\ \A k \in DOMAIN HelperRows :
         LET row == HelperRows[k]
         IN  /\ row.Payment = cfg.fixed_payment[1]
             /\ row.PrincipalPaid = row.Payment - row.InterestPaid
             /\ row.Payment < row.InterestPaid =>
                  /\ row.PrincipalPaid < 0
                  /\ row.Balance > BalanceBefore(HelperRows, k)
    /\ pc = "done" => Len(HelperRows) = cfg.months

\* A returned schedule whose first rows amortize negatively and whose last
\* rows, the rate having been cut, do not.
C11_Witness ==
  /\ strategy = "amortize_with_rate_changes" /\ pc = "done"
  /\ cfg.fixed_payment # None /\ cfg.months = MonthsPerYear
  /\ result[1][1].PrincipalPaid < 0
  /\ result[1][1].Balance > cfg.principal
  /\ result[1][MonthsPerYear].PrincipalPaid > 0

(***************************************************************************)
(* C12                                                                     *)
(***************************************************************************)
\* x is p / n as exactly as the unit allows: the nearest whole number of
\* units (either neighbour at a tie), for n >= 1.
IsQuotient(x, p, n) ==
  LET q == p \div n
      r == p % n
  IN  \/ x = q /\ 2 * r <= n
      \/ x = q + 1 /\ 2 * r >= n

\* C12: monthly_payment(P, 0, n) raises nothing and returns P / n, for every
\* n >= 1 and every P: the straight-line branch, not the annuity formula
\* (whose denominator is zero at a zero rate).
C12_ZeroRateStraightLine ==
  (strategy = "monthly_payment" /\ cfg.annual_rate = 0 /\ cfg.months >= 1) =>
    /\ error = "none"
    /\ pc = "done" => IsQuotient(result[1], cfg.principal, cfg.months)

\* A zero-rate payment of a principal that the months do not divide.
C12_Witness ==
  /\ strategy = "monthly_payment" /\ pc = "done"
  /\ cfg.annual_rate = 0 /\ cfg.months = 3
  /\ cfg.principal % 3 = 2
  /\ result[1] * 3 = cfg.principal + 1

(***************************************************************************)
(* C13                                                                     *)
(***************************************************************************)
\* One month of amortize_with_rate_changes under the recalculate policy (no
\* payment supplied) is appended in this step.
RecalculateMonthStep ==
  /\ pc = "amortize_with_rate_changes" /\ pc' = pc
  /\ am.fixed_payment = None
  /\ am'.m = am.m + 1

\* C13 as stated: the month calls monthly_payment if and only if its rate
\* differs from the rate behind the current payment; otherwise the payment is
\* carried over, not calculated again.
C13_RecalculatesIffRateChanged ==
  [][RecalculateMonthStep =>
       (am'.recalculated <=> df'[Len(df')].Rate # 100 * am.payment_rate)]_vars

\* What the code does instead (C13): under the recalculate policy the month calls
\* monthly_payment if and only if the cumulative reduction of the month is
\* above zero, that is in the month of the first cut and in EVERY month
\* after it, whether the rate changes in it or not; the payment is then that
\* of the balance before the month, the month's rate and the remaining
\* amortization months.  In a month without a reduction the payment is
\* carried over.
C13_RecalculatesWhileReduced ==
  (pc = "amortize_with_rate_changes" /\ am.fixed_payment = None /\ am.m > 1) =>
    LET m == am.m - 1
        row == df[m]
        reduction == Get(am.rate_reductions, am.start_month + m)
        before == IF m = 1 THEN InitialPayment(BalanceBeforeTerm, am.initial_rate,
                                               am.months, None, am.amortization_months)
                  ELSE df[m - 1].Payment
        principal == IF m = 1 THEN BalanceBeforeTerm ELSE df[m - 1].Balance
    IN  /\ am.recalculated <=> reduction > 0
        /\ reduction > 0 =>
             row.Payment = MonthlyPayment(principal, CurrentRate(am.initial_rate, reduction),
                             RemainingAmortMonths(am.months, am.amortization_months, m))
        /\ ~(reduction > 0) => row.Payment = before

\* A month after that of a cut: the rate is the one behind the payment, and
\* the payment is calculated again.
C13_Witness ==
  /\ pc = "amortize_with_rate_changes" /\ am.fixed_payment = None /\ am.m > 2
  /\ am.recalculated
  /\ df[am.m - 1].Rate = df[am.m - 2].Rate
  /\ df[1].Rate # df[am.m - 1].Rate

(***************************************************************************)
(* C14                                                                     *)
(***************************************************************************)
\* C14 as stated: in a run of a strategy simulator, which computes its
\* payments itself, no row has a Balance below zero.  (Stated of the months
\* of the amortization period, and of balances below zero by more than
\* rounding can account for.)
C14_BalanceNeverNegative ==
  (strategy \in Strategies /\ PositiveParameters) =>
    \A k \in DOMAIN Rows :
      k <= cfg.amortization_years * MonthsPerYear => Rows[k].Balance >= -Tolerance

(***************************************************************************)
(* C15                                                                     *)
(***************************************************************************)
\* C15 as stated: for positive parameters, and so also when the amortization
\* is shorter than the horizon or than a term, no simulator raises an error.
\* (Stated of the runs no test of which hinged on rounding.)
C15_NoRuntimeError ==
  (strategy \in Strategies /\ PositiveParameters
     /\ ~NearZeroAtTermEnd(schedule, MonthsPerYear * cfg.variable_term_years)) =>
    error = "none"

(***************************************************************************)
(* C16                                                                     *)
(***************************************************************************)
Ceil(a, b) == (a + b - 1) \div b

\* The call has returned or raised.
Terminated == pc \in {"done", "error"}

\* The term length in years that the renewal loop now running, or last
\* run, reads.
LoopTermYears ==
  IF \/ strategy = "simulate_full_fixed"
     \/ pc = "simulate_portion_fixed"
     \/ am.caller = "simulate_portion_fixed"
  THEN cfg.fixed_term_years
  ELSE cfg.variable_term_years

\* A renewal loop called with principal returned rows: the months elapsed are
\* the horizon's, or the balance it last tested (the last row's, or the
\* principal if there is no row) was zero or below, as far as rounding tells.
ReturnedAtHorizonOrPaidOff(rows, principal) ==
  \/ Len(rows) = total_months
  \/ rows # <<>> /\ rows[Len(rows)].Balance <= Tolerance
  \/ rows = <<>> /\ principal <= 0

\* The function the call is in: simulate_split calls its two portion
\* simulators in turn and then combines; the call ends in "done" or "error".
Stage ==
  CASE Terminated -> 4
    [] pc = "combine" -> 3
    [] pc = "simulate_portion_variable" \/ am.caller = "simulate_portion_variable" -> 2
    [] pc = "simulate_portion_fixed" \/ am.caller = "simulate_portion_fixed" -> 1
    [] OTHER -> 0

\* What every step of a call increases: the stage, and within a renewal loop
\* the rows and terms behind it and the month amortize_with_rate_changes is at.
Progress ==
  Stage * 10 * (MonthsPerYear * MaxYears + 1) + 2 * (Len(schedule) + terms) + am.m

\* The renewal loops' tests, and the statement a call that has not ended is
\* at: a loop test (which succeeds or fails), a month of
\* amortize_with_rate_changes or its return to the loop that called it, the
\* start of simulate_split or its combining.
LoopTests == {"simulate_full_fixed", "simulate_full_variable", "simulate_portion_fixed", "simulate_portion_variable"}

AtStatement ==
  \/ pc \in LoopTests /\ (LoopContinues \/ LoopEnds)
  \/ pc = "amortize_with_rate_changes" /\ am.caller \in LoopTests
  \/ pc \in {"simulate_split", "combine"} /\ IsSplit

\* C16: for positive terms and horizon every renewal loop terminates: every
\* step of a call takes it forward (so none is taken for ever), and a call
\* that has neither returned nor raised is at a statement.  A loop runs at
\* most ceil(horizon months / term months) terms, and returns with the
\* horizon's months elapsed or with a last balance of zero or below.
C16_LoopsTerminate ==
  /\ [][Progress' > Progress]_vars
  /\ []((cfg.horizon_years > 0 /\ \A t \in TermYearsRead : t > 0) =>
         /\ Terminated \/ AtStatement
         /\ Progress <= 5 * 10 * (MonthsPerYear * MaxYears + 1)
         /\ terms <= Ceil(total_months, MonthsPerYear * LoopTermYears)
         /\ (Done /\ ~IsSplit) => ReturnedAtHorizonOrPaidOff(schedule, cfg.loan_amount)
         /\ (IsSplit /\ pc \in {"combine", "done"}) =>
              /\ ReturnedAtHorizonOrPaidOff(fixed_schedule, fixed_portion)
              /\ ReturnedAtHorizonOrPaidOff(var_schedule, variable_portion))

\* A loop that returned at the horizon after two terms, the most it may run.
C16_Witness ==
  /\ Done /\ ~IsSplit /\ PositiveParameters
  /\ terms = 2 /\ terms = Ceil(total_months, FullTermMonths)
  /\ Len(schedule) = total_months
  /\ schedule[Len(schedule)].Balance > Tolerance

(***************************************************************************)
(* C17                                                                     *)
(***************************************************************************)
\* C17: at every test of a renewal loop (the start of each iteration, and the
\* test that ends the loop) remaining_amort + month is amortization_years *
\* 12, and month is the number of rows the terms so far have emitted: each
\* term took its own number of months off remaining_amort, the last term cut
\* at the horizon included.
C17_RemainingPlusElapsed ==
  pc \in LoopTests =>
    /\ remaining_amort + month = cfg.amortization_years * MonthsPerYear
    /\ month = Len(schedule)

\* A loop test after a term the horizon cut short, with amortization left.
C17_Witness ==
  /\ pc \in LoopTests
  /\ terms = 1
  /\ month < MonthsPerYear * LoopTermYears
  /\ month = total_months
  /\ remaining_amort > 0
  /\ PositiveParameters
(***************************************************************************)
(* C18                                                                     *)
(***************************************************************************)
\* The principal the running renewal loop was called with.
LoopPrincipal ==
  CASE ~IsSplit -> cfg.loan_amount
    [] Stage = 1 -> fixed_portion
    [] OTHER -> variable_portion

\* Row k of rows starts from the balance of the row before it (the principal
\* for the first row): its interest is that balance at the row's monthly
\* rate, and its Balance is that balance less its Principal Paid.
CarriesOn(rows, principal, k) ==
  LET before == IF k = 1 THEN principal ELSE rows[k - 1].Balance
  IN  /\ rows[k].InterestPaid = FixMul(before, MonthlyRate(rows[k].Rate \div 100))
      /\ rows[k].Balance = before - rows[k].PrincipalPaid

\* C18: the balance is carried without a break over the whole schedule of a
\* renewal loop, the first row of a renewed term included: every row is
\* looked at as amortize_with_rate_changes appends it, all rows are at every
\* loop test, and all rows of each portion are when simulate_split has them.
C18_BalanceCarried ==
  /\ (pc = "amortize_with_rate_changes" /\ df # <<>>) =>
        CarriesOn(Rows, LoopPrincipal, Len(Rows))
  /\ pc \in LoopTests =>
        \A k \in DOMAIN Rows : CarriesOn(Rows, LoopPrincipal, k)
  /\ pc \in {"combine", "done"} =>
        /\ \A k \in DOMAIN fixed_schedule : CarriesOn(fixed_schedule, fixed_portion, k)
        /\ \A k \in DOMAIN var_schedule : CarriesOn(var_schedule, variable_portion, k)

\* A renewed term has emitted its first row, with interest to pay on the
\* balance carried into it.
C18_Witness ==
  /\ terms = 1
  /\ Len(df) = 1
  /\ Len(schedule) = MonthsPerYear
  /\ df[1].InterestPaid > 0
  /\ df[1].Rate # schedule[1].Rate
  /\ schedule[Len(schedule)].Balance % Cents # 0
(***************************************************************************)
(* C19                                                                     *)
(***************************************************************************)
\* Row k opens a term of the fixed loop (rows are numbered as months, C2).
OpensTerm(k) == (k - 1) % FullTermMonths = 0

\* Rate of row k, as a fraction: initial in the first term, renewal later.
FixedRateOfRow(k) ==
  IF k <= FullTermMonths THEN cfg.fixed_initial_rate ELSE cfg.fixed_renewal_rate

\* The lengths of the terms and the rates of the rows of simulate_full_fixed,
\* and the payment held within each term.
FixedTermsAndRates ==
  /\ pc = "amortize_with_rate_changes" =>
        /\ am.start_month = month
        /\ am.months = Min(FullTermMonths, total_months - month)
  /\ \A k \in DOMAIN Rows :
        /\ Rows[k].Rate = 100 * FixedRateOfRow(k)
        /\ ~OpensTerm(k) => Rows[k].Payment = Rows[k - 1].Payment

\* The payment of the row that opens a term is monthly_payment of the balance
\* carried into it, the term's rate and the amortization months remaining.
OpeningPaymentOverRemaining(k) ==
  LET before == IF k = 1 THEN cfg.loan_amount ELSE Rows[k - 1].Balance
      remaining == cfg.amortization_years * MonthsPerYear - (k - 1)
  IN  /\ ~MonthlyPaymentRaises(FixedRateOfRow(k), remaining)
      /\ Rows[k].Payment = MonthlyPayment(before, FixedRateOfRow(k), remaining)

\* C19: in simulate_full_fixed each term has min(fixed_term_years * 12,
\* horizon months - elapsed months) months; rows with Month <=
\* fixed_term_years * 12 carry the initial rate and all later rows the
\* renewal rate; the payment is the same within a term and is computed where
\* a term opens from the carried balance, the term's rate and the remaining
\* amortization months.
C19_FullFixedTerms ==
  (strategy = "simulate_full_fixed" /\ PositiveParameters) =>
    /\ FixedTermsAndRates
    /\ \A k \in DOMAIN Rows : OpensTerm(k) => OpeningPaymentOverRemaining(k)

\* What the code does instead (C19): all of the claim, but for a term that
\* opens with no amortization month remaining, whose payment is computed
\* over the months of the term.
C19_FullFixedTermsOrNoneRemaining ==
  (strategy = "simulate_full_fixed" /\ PositiveParameters) =>
    /\ FixedTermsAndRates
    /\ \A k \in DOMAIN Rows :
          OpensTerm(k) =>
            IF k - 1 = cfg.amortization_years * MonthsPerYear
            THEN /\ Abs(Rows[k - 1].Balance) <= Tolerance
                 /\ Rows[k].Payment =
                      MonthlyPayment(Rows[k - 1].Balance, cfg.fixed_renewal_rate,
                                     Min(FullTermMonths, total_months - (k - 1)))
            ELSE OpeningPaymentOverRemaining(k)
(***************************************************************************)
(* C20                                                                     *)
(***************************************************************************)
\* The distinct cut months of cut_schedule from month 1 to month M.
CutMonthsUpTo(cut_schedule, M) ==
  {cut_schedule[i] : i \in DOMAIN cut_schedule} \cap (1 .. M)

\* C20: create_rate_path returns a mapping with exactly the keys 1 ..
\* total_months, whose value at month M is cut_amount times the number of
\* distinct cut months from 1 to M (a cut counts from its own month, a cut
\* month outside 1 .. total_months counts nowhere); for cut_amount >= 0 the
\* values never decrease with M.
C20_RatePathCumulative ==
  (Done /\ strategy = "create_rate_path") =>
    LET rate_reductions == result[1]
    IN  /\ DOMAIN rate_reductions = 1 .. cfg.total_months
        /\ \A M \in DOMAIN rate_reductions :
             rate_reductions[M] =
               cfg.cut_amount * Cardinality(CutMonthsUpTo(cfg.cut_schedule, M))
        /\ cfg.cut_amount >= 0 =>
             \A M \in DOMAIN rate_reductions :
               M > 1 => rate_reductions[M] >= rate_reductions[M - 1]

\* A schedule that names a month twice and a month beyond the path: the
\* reduction is nothing before the cut month and one cut from it to the end.
C20_Witness ==
  /\ Done /\ strategy = "create_rate_path"
  /\ cfg.cut_schedule = <<6, 6, 30>>
  /\ cfg.cut_amount > 0
  /\ cfg.total_months = 2 * MonthsPerYear
  /\ result[1][5] = 0
  /\ result[1][6] = cfg.cut_amount
  /\ result[1][2 * MonthsPerYear] = cfg.cut_amount
(***************************************************************************)
(* C21                                                                     *)
(***************************************************************************)
\* The months arguments of the calls of monthly_payment the next step makes:
\* by a variable loop for the payment of the term unless it holds one, by
\* amortize_with_rate_changes for its initial payment unless it is given
\* one, and by a month of it that recalculates.
MonthsOfPaymentCalls ==
  CASE pc \in {"simulate_full_fixed", "simulate_portion_fixed"} /\ LoopContinues ->
         {PaymentMonths(TermLength(cfg.fixed_term_years), remaining_amort)}
    [] pc \in {"simulate_full_variable", "simulate_portion_variable"} /\ LoopContinues ->
         (IF HoldsPayment THEN {} ELSE {remaining_amort})
         \cup (IF FixedPaymentArg(0) # None THEN {}
               ELSE {PaymentMonths(TermLength(cfg.variable_term_years), remaining_amort)})
    [] pc = "amortize_with_rate_changes" /\ am.m <= am.months ->
         IF Recalculates(am.fixed_payment,
                         Get(am.rate_reductions, MonthNumber(am.start_month, am.m)))
         THEN {RemainingAmortMonths(am.months, am.amortization_months, am.m)}
         ELSE {}
    [] OTHER -> {}

AmortizationCoversHorizon ==
  /\ cfg.amortization_years * MonthsPerYear >= total_months
  /\ cfg.horizon_years > 0
  /\ \A t \in TermYearsRead : t > 0

\* C21: when the amortization months are at least the horizon months and
\* term and horizon are positive, every call of monthly_payment of a
\* simulation is made with months >= 1; so none divides by zero.
C21_PaymentMonthsPositive ==
  (strategy \in Strategies /\ AmortizationCoversHorizon) =>
    /\ \A n \in MonthsOfPaymentCalls : n >= 1
    /\ error # "ZeroDivisionError"

\* The last month of the amortization recalculates its payment over the one
\* month that remains.
C21_Witness ==
  /\ strategy \in Strategies /\ AmortizationCoversHorizon
  /\ pc = "amortize_with_rate_changes"
  /\ am.m = cfg.amortization_years * MonthsPerYear
  /\ MonthsOfPaymentCalls = {1}
(***************************************************************************)
(* C22                                                                     *)
(***************************************************************************)
\* Both calls have ended, the portion simulator's in a return or a raise.
BothEnded == result # None /\ pc \in {"done", "error"}

PortionTermMonths ==
  MonthsPerYear * (IF strategy = "simulate_portion_fixed" THEN cfg.fixed_term_years
                   ELSE cfg.variable_term_years)

HasMetrics == strategy \in Strategies /\ pc = "done" /\ result # None

\* Total Payments = Total Interest + Total Principal Paid, and Equity Built
\* ($) = loan amount - Ending Balance = Total Principal Paid (NaN being equal
\* to nothing).
MetricsIdentities(metrics) ==
  /\ metrics.TotalPayments = metrics.TotalInterest + metrics.TotalPrincipalPaid
  /\ metrics.EndingBalance # NaN
  /\ metrics.EquityBuilt # NaN
  /\ metrics.EquityBuilt[1] = cfg.loan_amount - metrics.EndingBalance[1]
  /\ metrics.EquityBuilt[1] = metrics.TotalPrincipalPaid

\* C23: the metrics of the schedule of any strategy run with loan amount L
\* satisfy Total Payments = Total Interest + Total Principal Paid and Equity
\* Built ($) = L - Ending Balance = Total Principal Paid (stated of the runs
\* in which no loop test hinged on rounding).
C23_MetricsIdentities ==
  (HasMetrics /\ RoundingFree) => MetricsIdentities(result[1])

\* What the code does instead (C23): the identities hold of the full
\* simulators, and of simulate_split where the variable portion's schedule
\* is as long as the fixed portion's or longer.
C23_MetricsIdentitiesWithoutNaN ==
  (HasMetrics /\ (IsSplit => Len(fixed_schedule) <= Len(var_schedule))) =>
    MetricsIdentities(result[1])
====
